---------------------------- MODULE Spec2Model ----------------------------
(***************************************************************************)
(* Movie Ratings Dashboard (src/app_movies6.py).                           *)
(*                                                                         *)
(* The script is re-executed from top to bottom on every user interaction. *)
(* One execution: load_movies (memoized by st.cache_data), the KPI cards,  *)
(* the sidebar widgets, the filter on year range and genre, the tabs.      *)
(*                                                                         *)
(* Spec        the dashboard: runs of the script, widget interactions and  *)
(*             edits of the CSV file between runs.                         *)
(* SpecFilter  the filter of lines 111-115 applied to arbitrary criteria   *)
(*             (also those no widget can produce).                         *)
(***************************************************************************)
EXTENDS Integers, Sequences, FiniteSets

VARIABLES
    file,            \* the CSV file at DATA_PATH: [kind, ncols, rows]
    cache,           \* st.cache_data memo of load_movies(DATA_PATH): <<>> or <<dataset>>
    parses,          \* how many times pd.read_csv parsed the file in this process
    runs,            \* how many script executions were started
    edits,           \* how many times the file was changed on disk
    pc,              \* position of the running script
    err,             \* exception that ended the run, "none" otherwise
    movies,          \* the script's `movies` DataFrame: sequence of rows
    kpi,             \* what the four KPI cards show
    genre_selected,  \* value of the "Select Genre" selectbox ("unset" before it first renders)
    year_range,      \* value of the "Select Year Range" slider (<<>> before it first renders)
    filtered,        \* the script's `filtered` DataFrame
    sidebar_count,   \* the number written by "Filtered movies: **n**"
    summary          \* the "Summary Statistics" table (count and mean per numeric column)

vars == <<file, cache, parses, runs, edits, pc, err, movies, kpi, genre_selected,
          year_range, filtered, sidebar_count, summary>>

---------------------------------------------------------------------------
(* Bounds of the model. *)

MaxRows == 3        \* longest CSV file (data rows)
MaxRuns == 3        \* script executions per process
MaxEdits == 1       \* changes of the file on disk

(* Program constants. *)

NumColumns == 6
ALL_GENRES == "All Genres"

(* The rows a CSV file may hold: Film, Genre, CriticRating, AudienceRating, *)
(* BudgetMillions, Year (the six canonical column names of line 34).       *)
Row(f, g, c, a, b, y) ==
    [Film |-> f, Genre |-> g, CriticRating |-> c, AudienceRating |-> a,
     BudgetMillions |-> b, Year |-> y]

Catalogue ==
    { Row("Alpha", "Action", 40, 60, 10, 2007),
      Row("Bravo", "Comedy", 80, 70, 25, 2008),
      Row("Delta", "Action", 55, 45, 100, 2009) }

Datasets == UNION { [1..n -> Catalogue] : n \in 0..MaxRows }

NoRows == << >>

MissingFile    == [kind |-> "missing",    ncols |-> 0, rows |-> NoRows]
UnreadableFile == [kind |-> "unreadable", ncols |-> 0, rows |-> NoRows]
Csv(n, rows)   == [kind |-> "csv", ncols |-> n, rows |-> rows]

Files ==
    {MissingFile, UnreadableFile, Csv(NumColumns - 1, NoRows), Csv(NumColumns + 1, NoRows)}
        \cup { Csv(NumColumns, d) : d \in Datasets }

---------------------------------------------------------------------------
(* Arithmetic helpers. *)

RECURSIVE Gcd(_, _)
Gcd(a, b) == IF b = 0 THEN a ELSE Gcd(b, a % b)

RECURSIVE SumSeq(_)
SumSeq(s) == IF s = << >> THEN 0 ELSE Head(s) + SumSeq(Tail(s))

NaN == [nan |-> TRUE, num |-> 0, den |-> 1]

(* Series.mean(): NaN on an empty column, else the exact quotient.          *)
Mean(s) ==
    IF Len(s) = 0 THEN NaN
    ELSE LET t == SumSeq(s)
             g == Gcd(t, Len(s))
         IN  [nan |-> FALSE, num |-> t \div g, den |-> Len(s) \div g]

(* f"{x:.2f}": "nan" for NaN, else x rounded to hundredths, ties to even.   *)
Format2f(m) ==
    IF m.nan THEN [nan |-> TRUE, hundredths |-> 0]
    ELSE LET q == (100 * m.num) \div m.den
             r == (100 * m.num) % m.den
         IN  [nan |-> FALSE,
              hundredths |-> IF 2 * r > m.den THEN q + 1
                             ELSE IF 2 * r = m.den THEN q + (q % 2)
                             ELSE q]

Column(df, name) == [i \in 1..Len(df) |-> df[i][name]]

---------------------------------------------------------------------------
(* load_movies and its memo. *)

LoadOutcomeNoColumnCheck(f) ==
    IF f.kind = "missing" THEN "FileNotFoundError"
    ELSE IF f.kind = "unreadable" THEN "PermissionError"
    ELSE "none"

(* pd.read_csv + the assignment of six column names: the exception raised,  *)
(* or "none".                                                              *)
LoadOutcome(f) ==
    IF f.kind = "missing" THEN "FileNotFoundError"
    ELSE IF f.kind = "unreadable" THEN "PermissionError"
    ELSE IF f.ncols # NumColumns THEN "ValueError: Length mismatch"
    ELSE "none"

(* Whether read_csv got as far as parsing the file's text.                  *)
ParsesFile(f) == f.kind = "csv"

(* Lookup in the memo: a hit when a value is stored for the path.           *)
CacheMissAlways(c) == FALSE
CacheHit(c) == c # << >>

(* What the memo holds after load_movies returned d.                        *)
CacheStore(c, d) == <<d>>

(* DataFrame.copy(): a new frame with the same rows in the same order.      *)
Copy(df) == [i \in 1..Len(df) |-> df[i]]

---------------------------------------------------------------------------
(* KPI cards and summary statistics. *)

(* count and the three column means of a frame.                             *)
Summarize(df) ==
    [count        |-> Len(df),
     meanCritic   |-> Mean(Column(df, "CriticRating")),
     meanAudience |-> Mean(Column(df, "AudienceRating")),
     meanBudget   |-> Mean(Column(df, "BudgetMillions"))]

(* The four cards as rendered from a frame.                                 *)
Cards(df) ==
    [critic   |-> Format2f(Mean(Column(df, "CriticRating"))),
     audience |-> Format2f(Mean(Column(df, "AudienceRating"))),
     budget   |-> Format2f(Mean(Column(df, "BudgetMillions"))),
     total    |-> Len(df)]

(* The frame the cards are rendered from, given the script's two frames.    *)
KpiSource(mv) == mv

NoCards == Cards(NoRows)
NoSummary == Summarize(NoRows)

---------------------------------------------------------------------------
(* Sidebar widgets. *)

GenreCategories(df) == { df[i].Genre : i \in 1..Len(df) }
GenreOptions(df) == {ALL_GENRES} \cup GenreCategories(df)

YearSet(df) == { df[i].Year : i \in 1..Len(df) }
SetMin(S) == CHOOSE x \in S : \A y \in S : x <= y
SetMax(S) == CHOOSE x \in S : \A y \in S : x >= y

(* A range slider over lo..hi yields pairs (a, b) with lo <= a <= b <= hi.  *)
SliderValuesUnordered(lo, hi) == { <<a, b>> : a \in lo..hi, b \in lo..hi }
SliderValues(lo, hi) == { r \in SliderValuesUnordered(lo, hi) : r[1] <= r[2] }

---------------------------------------------------------------------------
(* The filter of lines 111-115. *)

BetweenExclusive(y, lo, hi) == lo < y /\ y < hi
BetweenSwapped(y, lo, hi) ==
    (IF lo <= hi THEN lo ELSE hi) <= y /\ y <= (IF lo <= hi THEN hi ELSE lo)
(* Series.between(left, right), inclusive="both".                           *)
Between(y, lo, hi) == lo <= y /\ y <= hi

YearMask(df, lo, hi) == [i \in 1..Len(df) |-> Between(df[i].Year, lo, hi)]

GenreMask(df, g) == [i \in 1..Len(df) |-> df[i].Genre = g]

(* df[mask]: the rows whose mask entry is True, in order.                   *)
RECURSIVE BooleanIndexPrepend(_, _)
BooleanIndexPrepend(df, mask) ==
    IF df = << >> THEN << >>
    ELSE IF Head(mask)
         THEN BooleanIndexPrepend(Tail(df), Tail(mask)) \o <<Head(df)>>
         ELSE BooleanIndexPrepend(Tail(df), Tail(mask))

RECURSIVE BooleanIndex(_, _)
BooleanIndex(df, mask) ==
    IF df = << >> THEN << >>
    ELSE IF Head(mask)
         THEN <<Head(df)>> \o BooleanIndex(Tail(df), Tail(mask))
         ELSE BooleanIndex(Tail(df), Tail(mask))

(* Whether the genre constraint applies.                                    *)
GenreConstrainedAlways(g) == TRUE
GenreConstrained(g) == g # ALL_GENRES

Filter(df, g, yr) ==
    LET byYear == BooleanIndex(Copy(df), YearMask(Copy(df), yr[1], yr[2]))
    IN  IF GenreConstrained(g)
        THEN BooleanIndex(byYear, GenreMask(byYear, g))
        ELSE byYear

(* Lines 111-115 as a whole: the two frames the script holds afterwards.    *)
RunFilterInPlace(mv, g, yr) == [movies |-> Filter(mv, g, yr), filtered |-> Filter(mv, g, yr)]
RunFilter(mv, g, yr) == [movies |-> mv, filtered |-> Filter(mv, g, yr)]

(* The frame the summary table describes.                                   *)
DescribeSourceWhole(mv, flt) == mv
DescribeSource(mv, flt) == flt


---------------------------------------------------------------------------
(* The dashboard: one execution of the script, step by step. *)

AfterLoad == {"kpi", "sidebar", "filter", "tabs", "done"}

Init ==
    /\ file \in Files
    /\ cache = << >>
    /\ parses = 0
    /\ runs = 0
    /\ edits = 0
    /\ pc = "idle"
    /\ err = "none"
    /\ movies = NoRows
    /\ kpi = NoCards
    /\ genre_selected = "unset"
    /\ year_range = << >>
    /\ filtered = NoRows
    /\ sidebar_count = 0
    /\ summary = NoSummary

(* A script execution starts with a fresh namespace and a fresh page.       *)
BeginRun ==
    /\ runs < MaxRuns
    /\ runs' = runs + 1
    /\ pc' = "load"
    /\ err' = "none"
    /\ movies' = NoRows
    /\ kpi' = NoCards
    /\ filtered' = NoRows
    /\ sidebar_count' = 0
    /\ summary' = NoSummary
    /\ UNCHANGED <<file, cache, parses, edits>>

(* The first visit of the page.                                             *)
OpenPage ==
    /\ pc = "idle"
    /\ BeginRun
    /\ UNCHANGED <<genre_selected, year_range>>

(* The user picks another entry of the selectbox: the script reruns.        *)
SelectGenre ==
    /\ pc = "done"
    /\ \E g \in GenreOptions(movies) :
          /\ g # genre_selected
          /\ genre_selected' = g
    /\ BeginRun
    /\ UNCHANGED year_range

(* The user drags the slider: the script reruns.                            *)
MoveSlider ==
    /\ pc = "done"
    /\ \E r \in SliderValues(SetMin(YearSet(movies)), SetMax(YearSet(movies))) :
          /\ r # year_range
          /\ year_range' = r
    /\ BeginRun
    /\ UNCHANGED genre_selected

(* The button or the radio of the tabs: a rerun with the same criteria.     *)
OtherWidget ==
    /\ pc = "done"
    /\ BeginRun
    /\ UNCHANGED <<genre_selected, year_range>>

(* The browser reloads the page: a new session, widgets back to defaults.   *)
ReloadPage ==
    /\ pc \in {"done", "failed"}
    /\ genre_selected' = "unset"
    /\ year_range' = << >>
    /\ BeginRun

(* The file at DATA_PATH is deleted or replaced while no script runs.       *)
EditsOf(f) ==
    ({MissingFile, Csv(NumColumns - 1, NoRows), Csv(NumColumns, NoRows)}
        \cup { Csv(NumColumns, <<r>>) : r \in Catalogue }) \ {f}

EditFile ==
    /\ pc \in {"idle", "done", "failed"}
    /\ edits < MaxEdits
    /\ edits' = edits + 1
    /\ file' \in EditsOf(file)
    /\ UNCHANGED <<cache, parses, runs, pc, err, movies, kpi, genre_selected,
                   year_range, filtered, sidebar_count, summary>>

(* movies = load_movies(DATA_PATH), memo hit: the stored frame, no read.    *)
LoadCached ==
    /\ pc = "load"
    /\ CacheHit(cache)
    /\ movies' = Copy(cache[1])
    /\ pc' = "kpi"
    /\ UNCHANGED <<file, cache, parses, runs, edits, err, kpi, genre_selected,
                   year_range, filtered, sidebar_count, summary>>

(* memo miss, the function returns: the frame is stored and returned.       *)
LoadFromFile ==
    /\ pc = "load"
    /\ ~CacheHit(cache)
    /\ LoadOutcome(file) = "none"
    /\ parses' = parses + 1
    /\ movies' = file.rows
    /\ cache' = CacheStore(cache, file.rows)
    /\ pc' = "kpi"
    /\ UNCHANGED <<file, runs, edits, err, kpi, genre_selected, year_range,
                   filtered, sidebar_count, summary>>

(* memo miss, the function raises: nothing is stored, the script stops.     *)
LoadFails ==
    /\ pc = "load"
    /\ ~CacheHit(cache)
    /\ LoadOutcome(file) # "none"
    /\ parses' = parses + (IF ParsesFile(file) THEN 1 ELSE 0)
    /\ err' = LoadOutcome(file)
    /\ pc' = "failed"
    /\ UNCHANGED <<file, cache, runs, edits, movies, kpi, genre_selected,
                   year_range, filtered, sidebar_count, summary>>

(* The four KPI cards.                                                      *)
KpiCards ==
    /\ pc = "kpi"
    /\ kpi' = Cards(KpiSource(movies))
    /\ pc' = "sidebar"
    /\ UNCHANGED <<file, cache, parses, runs, edits, err, movies, genre_selected,
                   year_range, filtered, sidebar_count, summary>>

(* A widget returns its session value when it has one, else its default.    *)
SelectboxValue(df, current) ==
    IF current \in GenreOptions(df) THEN current ELSE ALL_GENRES

SliderValue(lo, hi, current) ==
    IF current \in SliderValues(lo, hi) THEN current ELSE <<lo, hi>>

(* Selectbox and slider on a frame with rows.                               *)
Sidebar ==
    /\ pc = "sidebar"
    /\ movies # NoRows
    /\ genre_selected' = SelectboxValue(movies, genre_selected)
    /\ year_range' = SliderValue(SetMin(YearSet(movies)), SetMax(YearSet(movies)),
                                 year_range)
    /\ pc' = "filter"
    /\ UNCHANGED <<file, cache, parses, runs, edits, err, movies, kpi, filtered,
                   sidebar_count, summary>>

(* On a frame without rows Year.min() is NaN and int(NaN) raises.           *)
SidebarFails ==
    /\ pc = "sidebar"
    /\ movies = NoRows
    /\ genre_selected' = SelectboxValue(movies, genre_selected)
    /\ err' = "ValueError: cannot convert float NaN to integer"
    /\ pc' = "failed"
    /\ UNCHANGED <<file, cache, parses, runs, edits, movies, kpi, year_range,
                   filtered, sidebar_count, summary>>

(* filtered = movies.copy(); the two masks; the sidebar count.              *)
FilterStep ==
    /\ pc = "filter"
    /\ LET r == RunFilter(movies, genre_selected, year_range)
       IN  /\ movies' = r.movies
           /\ filtered' = r.filtered
           /\ sidebar_count' = Len(r.filtered)
    /\ pc' = "tabs"
    /\ UNCHANGED <<file, cache, parses, runs, edits, err, kpi, genre_selected,
                   year_range, summary>>

(* The tabs: the table and describe() of the filtered frame.                *)
Tabs ==
    /\ pc = "tabs"
    /\ summary' = Summarize(DescribeSource(movies, filtered))
    /\ pc' = "done"
    /\ UNCHANGED <<file, cache, parses, runs, edits, err, movies, kpi,
                   genre_selected, year_range, filtered, sidebar_count>>

Next ==
    \/ OpenPage
    \/ SelectGenre
    \/ MoveSlider
    \/ OtherWidget
    \/ ReloadPage
    \/ EditFile
    \/ LoadCached
    \/ LoadFromFile
    \/ LoadFails
    \/ KpiCards
    \/ Sidebar
    \/ SidebarFails
    \/ FilterStep
    \/ Tabs

Spec == Init /\ [][Next]_vars

---------------------------------------------------------------------------
(* The filter alone, on arbitrary criteria. *)

CatalogueYears == { r.Year : r \in Catalogue }
YearInputs == (SetMin(CatalogueYears) - 1)..(SetMax(CatalogueYears) + 1)
GenreInputs == {ALL_GENRES, "Drama"} \cup { r.Genre : r \in Catalogue }

InitFilter ==
    /\ file = MissingFile
    /\ cache = << >>
    /\ parses = 0
    /\ runs = 0
    /\ edits = 0
    /\ pc = "filter"
    /\ err = "none"
    /\ movies \in Datasets
    /\ kpi = NoCards
    /\ genre_selected \in GenreInputs
    /\ year_range \in YearInputs \X YearInputs
    /\ filtered = NoRows
    /\ sidebar_count = 0
    /\ summary = NoSummary

NewCriteria ==
    /\ pc = "tabs"
    /\ genre_selected' \in GenreInputs
    /\ year_range' \in YearInputs \X YearInputs
    /\ filtered' = NoRows
    /\ sidebar_count' = 0
    /\ pc' = "filter"
    /\ UNCHANGED <<file, cache, parses, runs, edits, err, movies, kpi, summary>>

NextFilter == FilterStep \/ NewCriteria

SpecFilter == InitFilter /\ [][NextFilter]_vars

---------------------------------------------------------------------------
(* Properties. *)

Occurs(r, df) == \E i \in 1..Len(df) : df[i] = r

Occurrences(r, df) == Cardinality({ i \in 1..Len(df) : df[i] = r })

(* s can be obtained from t by deleting rows.                               *)
RECURSIVE IsSubsequence(_, _)
IsSubsequence(s, t) ==
    IF s = << >> THEN TRUE
    ELSE IF t = << >> THEN FALSE
    ELSE IF Head(s) = Head(t) THEN IsSubsequence(Tail(s), Tail(t))
    ELSE IsSubsequence(s, Tail(t))

RECURSIVE SumOverGenres(_, _, _)
SumOverGenres(G, df, yr) ==
    IF G = {} THEN 0
    ELSE LET g == CHOOSE x \in G : TRUE
         IN  Len(Filter(df, g, yr)) + SumOverGenres(G \ {g}, df, yr)

FileIsBad(f) == f.kind # "csv" \/ f.ncols # NumColumns

LoadErrors == {"FileNotFoundError", "PermissionError", "ValueError: Length mismatch"}

(* C1: a row of the dataset is in the filtered view exactly when its year   *)
(* lies in the inclusive range and the genre is unconstrained or equal;     *)
(* with the range (Y, Y) the view holds exactly the rows of year Y.         *)
C1_FilterMembership ==
    pc = "tabs" =>
        /\ \A i \in 1..Len(movies) :
              Occurs(movies[i], filtered) <=>
                  /\ year_range[1] <= movies[i].Year
                  /\ movies[i].Year <= year_range[2]
                  /\ (genre_selected = ALL_GENRES \/ movies[i].Genre = genre_selected)
        /\ (year_range[1] = year_range[2] =>
               /\ \A j \in 1..Len(filtered) : filtered[j].Year = year_range[1]
               /\ \A i \in 1..Len(movies) :
                     (movies[i].Year = year_range[1] /\ genre_selected = ALL_GENRES)
                         => Occurs(movies[i], filtered))

C1_Witness ==
    /\ pc = "tabs"
    /\ year_range[1] = year_range[2]
    /\ genre_selected = "Action"
    /\ Len(filtered) = 1
    /\ Len(movies) = MaxRows
    /\ \E i \in 1..Len(movies) : movies[i].Genre = "Action" /\ ~Occurs(movies[i], filtered)

(* C2: the filtered view is a subsequence of the dataset: every row of it   *)
(* is a row of the dataset, no row occurs more often than in the dataset,   *)
(* and the rows keep the dataset's relative order.                          *)
C2_FilterSubsequence ==
    pc = "tabs" =>
        /\ IsSubsequence(filtered, movies)
        /\ \A r \in Catalogue : Occurrences(r, filtered) <= Occurrences(r, movies)

C2_Witness ==
    /\ pc = "tabs"
    /\ Len(filtered) = 2
    /\ Len(movies) = 3
    /\ filtered[1] # filtered[2]
    /\ movies[2] # filtered[1]
    /\ movies[2] # filtered[2]

(* C5: a year range with min > max yields the empty view and no error.      *)
C5_InvertedRangeEmpty ==
    (pc = "tabs" /\ year_range[1] > year_range[2]) =>
        (filtered = NoRows /\ sidebar_count = 0 /\ err = "none")

C5_Witness ==
    /\ pc = "tabs"
    /\ year_range[1] > year_range[2]
    /\ genre_selected = ALL_GENRES
    /\ \E i \in 1..Len(movies) :
          year_range[2] <= movies[i].Year /\ movies[i].Year <= year_range[1]

C3_CardsFollowFilter ==
    pc = "done" => kpi = Cards(Filter(movies, genre_selected, year_range))

(* C3 as amended: after every run the sidebar count and the summary table   *)
(* are the count and the column means of the view filtered by the current   *)
(* criteria, and the cards are the count and the means of the whole         *)
(* dataset.                                                                 *)
C3_SummaryFollowsFilter ==
    pc = "done" =>
        /\ sidebar_count = Summarize(Filter(movies, genre_selected, year_range)).count
        /\ summary = Summarize(Filter(movies, genre_selected, year_range))
        /\ kpi = Cards(movies)

C3_Witness ==
    /\ pc = "done"
    /\ runs >= 2
    /\ genre_selected = "Action"
    /\ year_range[1] < year_range[2]
    /\ sidebar_count = 2
    /\ Len(movies) = 3
    /\ summary.count = 2
    /\ summary.meanCritic # Summarize(movies).meanCritic
    /\ kpi.total = 3

(* C4: once loaded, the dataset stays what the loader returned, whatever    *)
(* the filter and the summaries did.                                        *)
C4_DatasetNeverMutated ==
    pc \in AfterLoad => (cache # << >> /\ movies = cache[1])

C4_Witness ==
    /\ pc = "done"
    /\ runs >= 2
    /\ Len(movies) = 3
    /\ Len(filtered) = 1
    /\ movies = cache[1]

(* C7 as stated: load_movies fails whenever the file is missing, unreadable *)
(* or not of six columns (the file cannot change while the script runs, so  *)
(* past the load the file is the one the load saw).                         *)
C7_BadFileAlwaysFails ==
    pc \in {"kpi", "sidebar", "filter", "tabs"} => ~FileIsBad(file)

(* C7 as amended: when nothing is memoized for the path and the file is     *)
(* missing, unreadable or not of six columns, load_movies raises, nothing   *)
(* is memoized, and the run ends with no dataset, no cards, no filtered     *)
(* view and no summary.                                                     *)
C7_BadFileFailsOnMiss ==
    [][ /\ (pc = "load" /\ cache = << >> /\ FileIsBad(file)) =>
              (pc' = "failed" /\ err' \in LoadErrors /\ cache' = << >>)
        /\ (pc' = "failed" /\ err' \in LoadErrors) =>
              /\ movies' = NoRows
              /\ kpi' = NoCards
              /\ filtered' = NoRows
              /\ sidebar_count' = 0
              /\ summary' = NoSummary
              /\ cache' = << >> ]_vars

C7_Witness ==
    /\ pc = "failed"
    /\ err = "ValueError: Length mismatch"
    /\ file.kind = "csv"
    /\ file.ncols # NumColumns
    /\ cache = << >>
    /\ movies = NoRows

(* C8 as stated: the file is parsed at most once in the process.            *)
C8_ParsedAtMostOnce ==
    parses <= 1

(* C8 as amended: once a load has succeeded the file is not parsed again    *)
(* and every later load returns the dataset of that first load, whatever    *)
(* the file holds by then; a load that failed is not memoized.              *)
C8_MemoizedAfterSuccess ==
    [][ cache # << >> =>
            /\ parses' = parses
            /\ cache' = cache
            /\ (pc = "load" => (pc' = "kpi" /\ movies' = cache[1])) ]_vars

C8_Witness ==
    /\ pc = "done"
    /\ runs >= 2
    /\ parses = 1
    /\ cache # << >>
    /\ file # Csv(NumColumns, cache[1])
    /\ movies = cache[1]
    /\ Len(movies) >= 2

(* C9: a dataset without rows (so an empty view) is handled: the run does   *)
(* not fail.                                                                *)
C9_EmptyDatasetCompletes ==
    ~(pc = "failed" /\ cache # << >> /\ cache[1] = NoRows)

(* C10: the criteria the widgets produce are well-formed: the genre is the  *)
(* sentinel or a genre of the dataset, the range lies in the dataset's      *)
(* years with min <= max; the first run has the sentinel and the full       *)
(* range, and with those the view is the whole dataset.                     *)
C10_CriteriaWellFormed ==
    pc \in {"filter", "tabs", "done"} =>
        LET lo == SetMin(YearSet(movies))
            hi == SetMax(YearSet(movies))
            initial == genre_selected = ALL_GENRES /\ year_range = <<lo, hi>>
        IN  /\ genre_selected = ALL_GENRES \/ genre_selected \in GenreCategories(movies)
            /\ Len(year_range) = 2
            /\ lo <= year_range[1]
            /\ year_range[1] <= year_range[2]
            /\ year_range[2] <= hi
            /\ (runs = 1 => initial)
            /\ (initial /\ pc \in {"tabs", "done"}) => filtered = movies

C10_Witness ==
    /\ pc = "done"
    /\ runs = 1
    /\ genre_selected = ALL_GENRES
    /\ year_range[1] < year_range[2]
    /\ Len(movies) = 3
    /\ filtered = movies

============================================================================
